---- MODULE Spec2Model ----
(***************************************************************************)
(* A model of src/src/v3.ts: generateTypesV3 and the closures it defines   *)
(* (transform, createKeys, transformParameters, transformOperation,        *)
(* transformPaths, transformRefType, createExternalFileMapping).           *)
(*                                                                         *)
(* Representation.                                                         *)
(*  - A JavaScript object that the code iterates (Object.entries,          *)
(*    Object.keys) or indexes by a computed key is an ordered map: a       *)
(*    sequence of [k, v] entries with distinct keys, in Object.entries     *)
(*    order.  An object the code reads by fixed field names is a record;   *)
(*    an absent field is a field that is not in the record's DOMAIN.       *)
(*  - A string the code takes apart (a $ref, an enum member, a status      *)
(*    key) is a sequence of one-character strings.  A string the code      *)
(*    only copies (a property name, an operationId) is a TLA+ string.      *)
(*  - Text is a sequence of tokens [t, v]: "lit" a piece of a template,    *)
(*    "open"/"close" a bracket of a template, "name" a copied string,      *)
(*    "ch" one character of a string that was taken apart.  Concatenating  *)
(*    text is concatenating token sequences.                               *)
(***************************************************************************)
EXTENDS Integers, Sequences, FiniteSets, TLC

VARIABLES
  pc,                \* position in generateTypesV3 / the closure under call
  input,             \* the input document (ordered map)
  rawSchema,         \* options.rawSchema
  operations,        \* the operations table (ordered map id -> operation)
  externalFileKeys,  \* the Set of external file keys, in insertion order
  finalOutput,       \* the text built so far / returned
  err,               \* "" | "InvalidDocumentShape" | "TypeError"
  arg,               \* the argument of the closure under call
  resolved           \* history: the refs handed to transformRefType so far

vars == <<pc, input, rawSchema, operations, externalFileKeys, finalOutput,
          err, arg, resolved>>

----------------------------------------------------------------------------
(* Bounds of the model.                                                    *)

MaxStrLen == 3      \* longest enum member string
MaxRefCalls == 3    \* most transformRefType calls in one run of SpecRefs
MaxParams == 3      \* longest parameter list
MaxProps == 2       \* most entries of a property map
MaxPaths == 2       \* most paths of a document
MaxStatusLen == 3   \* longest status key, "default" aside

----------------------------------------------------------------------------
(* Strings as character sequences.                                         *)

Quote == "'"
Backslash == "\\"

StartsWith(s, p) ==
  /\ Len(s) >= Len(p)
  /\ SubSeq(s, 1, Len(p)) = p

EndsWith(s, p) ==
  /\ Len(s) >= Len(p)
  /\ SubSeq(s, Len(s) - Len(p) + 1, Len(s)) = p

\* String.prototype.indexOf, 1-based; 0 when sep does not occur.
IndexOf(s, sep) ==
  LET hits == {i \in 1..(Len(s) - Len(sep) + 1) : SubSeq(s, i, i + Len(sep) - 1) = sep}
  IN IF hits = {} THEN 0 ELSE CHOOSE i \in hits : \A j \in hits : i <= j

\* String.prototype.split with a non-empty separator.
RECURSIVE Split(_, _)
Split(s, sep) ==
  LET i == IndexOf(s, sep)
  IN IF i = 0 THEN <<s>>
     ELSE <<SubSeq(s, 1, i - 1)>> \o Split(SubSeq(s, i + Len(sep), Len(s)), sep)

\* String.prototype.substr(from) with a 0-based start.
Substr(s, from) == SubSeq(s, from + 1, Len(s))

\* Array.prototype.join.
RECURSIVE Join(_, _)
Join(parts, sep) ==
  IF parts = <<>> THEN <<>>
  ELSE IF Len(parts) = 1 THEN parts[1]
  ELSE parts[1] \o sep \o Join(Tail(parts), sep)

RECURSIVE Concat(_)
Concat(seqs) == IF seqs = <<>> THEN <<>> ELSE Head(seqs) \o Concat(Tail(seqs))

\* Number(s) for a status key: the value of a string of decimal digits, NaN
\* (modelled as -1) for a string with any other character.  The empty string
\* is 0, as in JavaScript.
Digits == <<"0", "1", "2", "3", "4", "5", "6", "7", "8", "9">>
DigitVal(c) == (CHOOSE i \in 1..10 : Digits[i] = c) - 1
IsDigit(c) == \E i \in 1..10 : Digits[i] = c
NaN == -1
RECURSIVE DigitsValue(_)
DigitsValue(s) ==
  IF s = <<>> THEN 0 ELSE 10 * DigitsValue(SubSeq(s, 1, Len(s) - 1)) + DigitVal(s[Len(s)])
Number(s) == IF \A i \in 1..Len(s) : IsDigit(s[i]) THEN DigitsValue(s) ELSE NaN

\* String(n) for a non-negative integer.
RECURSIVE NumberToString(_)
NumberToString(n) ==
  IF n < 10 THEN <<Digits[n + 1]>>
  ELSE NumberToString(n \div 10) \o <<Digits[(n % 10) + 1]>>

----------------------------------------------------------------------------
(* Text.                                                                   *)

Tok(t, v) == [t |-> t, v |-> v]
Lit(v) == <<Tok("lit", v)>>
Open(v) == <<Tok("open", v)>>
Close(v) == <<Tok("close", v)>>
Name(v) == <<Tok("name", v)>>
Ch(s) == [i \in 1..Len(s) |-> Tok("ch", s[i])]

\* The characters of a run of "ch" tokens.
Chars(text) == [i \in 1..Len(text) |-> text[i].v]

----------------------------------------------------------------------------
(* Ordered maps.                                                           *)

Keys(m) == [i \in 1..Len(m) |-> m[i].k]
Has(m, k) == \E i \in 1..Len(m) : m[i].k = k
Get(m, k) == m[CHOOSE i \in 1..Len(m) : m[i].k = k].v
\* m[k] = v: an existing key keeps its place, a new key goes last.
Put(m, k, v) ==
  IF Has(m, k)
  THEN [i \in 1..Len(m) |-> IF m[i].k = k THEN [k |-> k, v |-> v] ELSE m[i]]
  ELSE Append(m, [k |-> k, v |-> v])
Includes(s, x) == \E i \in 1..Len(s) : s[i] = x
E(k, v) == [k |-> k, v |-> v]

----------------------------------------------------------------------------
(* ./utils and ./property-mapper: not part of src/, modelled from the      *)
(* specification (sections 3, 4.1, 4.6 and 6).                             *)

\* comment(text): a doc comment holding the description.
comment(text) == Lit("/**\n  * ") \o <<Tok("doc", text)>> \o Lit("\n  */\n")

\* Joins texts with a literal separator.
RECURSIVE JoinText(_, _)
JoinText(texts, sep) ==
  IF texts = <<>> THEN <<>>
  ELSE IF Len(texts) = 1 THEN texts[1]
  ELSE texts[1] \o Lit(sep) \o JoinText(Tail(texts), sep)

tsUnionOf(types) == Open("(") \o JoinText(types, ") | (") \o Close(")")
tsIntersectionOf(types) == Open("(") \o JoinText(types, ") & (") \o Close(")")
tsPartial(type) == Lit("Partial") \o Open("<") \o type \o Close(">")
tsArrayOf(type) == Open("(") \o type \o Close(")") \o Lit("[]")
tsTupleOf(types) == Open("[") \o JoinText(types, ", ") \o Close("]")

\* The primitive types and the type each is emitted as.
PRIMITIVES ==
  << E("boolean", "boolean"), E("string", "string"),
     E("integer", "number"), E("number", "number") >>

\* The derived tag of a node, by the precedence of section 3:
\* enum > oneOf > anyOf > allOf/properties/additionalProperties > array >
\* ref > primitive by declared type.  "" for a node of no recognised shape
\* and for an absent node.
nodeType(node) ==
  IF "undefined" \in DOMAIN node THEN ""
  ELSE IF "enum" \in DOMAIN node THEN "enum"
  ELSE IF "oneOf" \in DOMAIN node THEN "oneOf"
  ELSE IF "anyOf" \in DOMAIN node THEN "anyOf"
  ELSE IF \/ "allOf" \in DOMAIN node
          \/ "properties" \in DOMAIN node
          \/ "additionalProperties" \in DOMAIN node
          \/ ("type" \in DOMAIN node /\ node.type = "object") THEN "object"
  ELSE IF "items" \in DOMAIN node \/ ("type" \in DOMAIN node /\ node.type = "array")
       THEN "array"
  ELSE IF "ref" \in DOMAIN node THEN "ref"
  ELSE IF "type" \in DOMAIN node /\ Has(PRIMITIVES, node.type) THEN Get(PRIMITIVES, node.type)
  ELSE ""

\* transformRef(ref, root): an internal reference as a chain of indexed
\* lookups under the root prefix.
transformRef(ref, root) ==
  IF ~StartsWith(ref, <<"#">>) THEN Lit("any")
  ELSE LET replaced == IF StartsWith(ref, <<"#", "/">>) THEN root \o Substr(ref, 2) ELSE ref
           parts == Split(replaced, <<"/">>)
       IN Ch(parts[1]) \o Lit("[\"")
            \o JoinText([i \in 1..(Len(parts) - 1) |-> Ch(parts[i + 1])], "\"][\"")
            \o Lit("\"]")

\* The maximal runs of "ch" tokens of a text, as character sequences.
RECURSIVE ChRuns(_)
ChRuns(text) ==
  IF text = <<>> THEN <<>>
  ELSE IF text[1].t # "ch" THEN ChRuns(Tail(text))
  ELSE LET stops == {i \in 1..Len(text) : text[i].t # "ch"}
           n == IF stops = {} THEN Len(text) + 1
                ELSE CHOOSE i \in stops : \A j \in stops : i <= j
       IN <<Chars(SubSeq(text, 1, n - 1))>> \o ChRuns(SubSeq(text, n, Len(text)))

\* A one-character string is the name it spells; the structural names of a
\* document are spelled out.
Spelled ==
  << E("components", <<"c", "o", "m", "p", "o", "n", "e", "n", "t", "s">>),
     E("parameters", <<"p", "a", "r", "a", "m", "e", "t", "e", "r", "s">>),
     E("schemas", <<"s", "c", "h", "e", "m", "a", "s">>),
     E("responses", <<"r", "e", "s", "p", "o", "n", "s", "e", "s">>),
     E("paths", <<"p", "a", "t", "h", "s">>) >>
Spell(name) == IF Has(Spelled, name) THEN Get(Spelled, name) ELSE <<name>>
IsSpelling(cs) == Len(cs) = 1 \/ \E i \in 1..Len(Spelled) : Spelled[i].v = cs
Unspell(cs) ==
  IF \E i \in 1..Len(Spelled) : Spelled[i].v = cs
  THEN Spelled[CHOOSE i \in 1..Len(Spelled) : Spelled[i].v = cs].k
  ELSE cs[1]

\* unrefComponent(components, ref): the component a path expression
\* components["<type>"]["<object>"] addresses.
unrefComponent(components, refText) ==
  LET runs == ChRuns(refText)
      type == Unspell(runs[2])
      object == Unspell(runs[3])
  IN Get(Get(components, type), object)

\* propertyMapper(schemas, mapper) with no mapper given: the identity.
propertyMapper(schemas) == schemas

----------------------------------------------------------------------------
(* The closures of generateTypesV3.  A closure that may add to             *)
(* externalFileKeys takes the set as it is and returns, with its text      *)
(* (out), the set as it leaves it (keys); one that may throw returns the   *)
(* error too (err, "" for none).                                           *)

\* An add the code's Set does not make: the value is added again.
SetAddAgain(set, x) == Append(set, x)

\* Set.prototype.add: a value already in the set is not added again.
SetAdd(set, x) == IF Includes(set, x) THEN set ELSE Append(set, x)

R(out, keys) == [out |-> out, keys |-> keys]

\* Bind(e, LAMBDA x : body) is LET x == e IN body, with e written once.
Bind(v, F(_)) == F(v)

\* relativePath.replace(/\.json$/, "")
DotJson == <<".", "j", "s", "o", "n">>
StripJson(path) ==
  IF EndsWith(path, DotJson) THEN SubSeq(path, 1, Len(path) - Len(DotJson)) ELSE path

\* The key transformRefType records for an external reference.
FileKey(ref) == StripJson(Split(ref, <<"#", "/">>)[1])

\* An absent internalPath and an empty one are both falsy: both are <<>>.
InternalPath(ref) ==
  Bind(Split(ref, <<"#", "/">>), LAMBDA split : IF Len(split) >= 2 THEN split[2] ELSE <<>>)

ExternalText(fileKey, internalPath, parts) ==
  IF internalPath # <<>>
  THEN Lit("external[\"") \o Ch(fileKey) \o Lit("\"][\"")
         \o JoinText([i \in 1..Len(parts) |-> Ch(parts[i])], "\"][\"")
         \o Lit("\"]")
  ELSE Lit("external[\"") \o Ch(fileKey) \o Lit("\"]")

transformRefType(ref, root, keys) ==
  IF ~StartsWith(ref, <<"#">>)
  THEN Bind(FileKey(ref), LAMBDA fileKey :
       Bind(InternalPath(ref), LAMBDA internalPath :
         R(ExternalText(fileKey, internalPath, Split(internalPath, <<"/">>)),
           SetAdd(keys, fileKey))))
  ELSE R(transformRef(ref, root), keys)

\* item.replace(/'/g, "\\'")
RECURSIVE EscapeQuotes(_)
EscapeQuotes(s) ==
  IF s = <<>> THEN <<>>
  ELSE (IF Head(s) = Quote THEN <<Backslash, Quote>> ELSE <<Head(s)>>)
         \o EscapeQuotes(Tail(s))

\* One member of an enum: a number or a boolean as it is, a string quoted.
EnumLiteral(item) ==
  IF "num" \in DOMAIN item THEN Ch(NumberToString(item.num))
  ELSE IF "bool" \in DOMAIN item THEN Lit(IF item.bool THEN "true" ELSE "false")
  ELSE Ch(<<Quote>> \o EscapeQuotes(item.str) \o <<Quote>>)

SchemasRoot == <<"s", "c", "h", "e", "m", "a", "s", "/">>
Truthy(obj, field) == field \in DOMAIN obj /\ obj[field] # FALSE
Arg(given, names) == [given |-> given, names |-> names]
Undefined == [undefined |-> TRUE]
FieldOr(obj, field, default) == IF field \in DOMAIN obj THEN obj[field] ELSE default

\* The generic map type for an object with no properties, no allOf and no
\* additionalProperties.
IsEmptyObject(node) ==
  /\ ("properties" \notin DOMAIN node \/ node.properties = <<>>)
  /\ "allOf" \notin DOMAIN node
  /\ ~(/\ "additionalProperties" \in DOMAIN node
       /\ node.additionalProperties # [literal |-> FALSE])

HasAdditional(node) ==
  /\ "additionalProperties" \in DOMAIN node
  /\ node.additionalProperties # [literal |-> FALSE]

\* The text of an object: allOf first, then properties, then additional
\* properties; inner is the transformed additionalProperties schema.
ObjectText(node, properties, inner, allOf) ==
  tsIntersectionOf(
    allOf.outs
      \o (IF properties.out # <<>>
          THEN << Open("{") \o Lit(" ") \o properties.out \o Lit(" ") \o Close("}") >>
          ELSE <<>>)
      \o (IF HasAdditional(node)
          THEN << Open("{") \o Lit(" [key: string]: ")
                    \o (IF inner.out = <<>> THEN Lit("any") ELSE inner.out)
                    \o Lit(";") \o Close("}") \o Lit("\n") >>
          ELSE <<>>))

RECURSIVE transform(_, _), transformAll(_, _), createKeys(_, _, _)

\* The calls of the object case are made in the order of the code:
\* createKeys, then the additionalProperties schema, then the allOf members.
transform(node, keys) ==
  Bind(nodeType(node), LAMBDA tag :
    CASE tag = "ref" ->
           transformRefType(node.ref, IF rawSchema THEN SchemasRoot ELSE <<>>, keys)
      [] tag \in {"string", "number", "boolean"} -> R(Lit(tag), keys)
      [] tag = "enum" ->
           R(tsUnionOf([i \in 1..Len(node.enum) |-> EnumLiteral(node.enum[i])]), keys)
      [] tag \in {"oneOf", "anyOf", "object", "array"} ->
           IF tag = "object" /\ IsEmptyObject(node)
           THEN R(Open("{") \o Lit(" [key: string]: any ") \o Close("}"), keys)
           ELSE
           Bind(IF tag = "object"
                THEN createKeys(FieldOr(node, "properties", <<>>),
                                IF "required" \in DOMAIN node
                                THEN Arg(TRUE, node.required) ELSE Arg(FALSE, <<>>),
                                keys)
                ELSE R(<<>>, keys), LAMBDA properties :
           Bind(IF tag = "object" /\ HasAdditional(node)
                     /\ node.additionalProperties # [literal |-> TRUE]
                THEN node.additionalProperties
                ELSE IF tag = "array" /\ "items" \in DOMAIN node
                        /\ "arr" \notin DOMAIN node.items
                THEN node.items
                ELSE Undefined, LAMBDA single :
           Bind(IF "undefined" \in DOMAIN single THEN R(<<>>, properties.keys)
                ELSE transform(single, properties.keys), LAMBDA inner :
           Bind(transformAll(
                  IF tag = "oneOf" THEN node.oneOf
                  ELSE IF tag = "anyOf" THEN node.anyOf
                  ELSE IF tag = "object" THEN FieldOr(node, "allOf", <<>>)
                  ELSE IF "items" \in DOMAIN node /\ "arr" \in DOMAIN node.items
                  THEN node.items.arr
                  ELSE <<>>,
                  inner.keys), LAMBDA all :
             R(CASE tag = "oneOf" -> tsUnionOf(all.outs)
                 [] tag = "anyOf" ->
                      tsIntersectionOf([i \in 1..Len(all.outs) |-> tsPartial(all.outs[i])])
                 [] tag = "object" -> ObjectText(node, properties, inner, all)
                 [] tag = "array" ->
                      IF "items" \in DOMAIN node /\ "arr" \in DOMAIN node.items
                      THEN tsTupleOf(all.outs)
                      ELSE IF "items" \in DOMAIN node THEN tsArrayOf(inner.out)
                      ELSE tsArrayOf(Lit("any")),
               all.keys)))))
      [] OTHER -> R(<<>>, keys))

\* nodes.map(transform), the set threaded through the calls in order.
transformAll(nodes, keys) ==
  IF nodes = <<>> THEN [outs |-> <<>>, keys |-> keys]
  ELSE Bind(transform(Head(nodes), keys), LAMBDA first :
       Bind(transformAll(Tail(nodes), first.keys), LAMBDA rest :
         [outs |-> <<first.out>> \o rest.outs, keys |-> rest.keys]))

\* A field the code does not write: an absent required argument makes
\* every field required.
KeyTextRequiredByDefault(key, value, required, type) ==
  (IF "description" \in DOMAIN value THEN comment(value.description) ELSE <<>>)
    \o Lit("\"") \o Name(key) \o Lit("\"")
    \o (IF required.given /\ ~Includes(required.names, key) THEN Lit("?") ELSE <<>>)
    \o Lit(": ")
    \o (IF Truthy(value, "nullable") THEN Open("(") ELSE <<>>)
    \o type
    \o (IF Truthy(value, "nullable") THEN Close(")") \o Lit(" | null") ELSE <<>>)
    \o Lit(";\n")

\* One field of createKeys: comment, name, optionality, nullable wrapping.
KeyText(key, value, required, type) ==
  (IF "description" \in DOMAIN value THEN comment(value.description) ELSE <<>>)
    \o Lit("\"") \o Name(key) \o Lit("\"")
    \o (IF ~required.given \/ ~Includes(required.names, key) THEN Lit("?") ELSE <<>>)
    \o Lit(": ")
    \o (IF Truthy(value, "nullable") THEN Open("(") ELSE <<>>)
    \o type
    \o (IF Truthy(value, "nullable") THEN Close(")") \o Lit(" | null") ELSE <<>>)
    \o Lit(";\n")

\* required is Arg(FALSE, <<>>) when the argument is not given.
createKeys(obj, required, keys) ==
  IF obj = <<>> THEN R(<<>>, keys)
  ELSE Bind(transform(FieldOr(obj[1].v, "schema", obj[1].v), keys), LAMBDA type :
       Bind(createKeys(Tail(obj), required, type.keys), LAMBDA rest :
         R(KeyText(obj[1].k, obj[1].v, required, type.out) \o rest.out, rest.keys)))

RE(out, keys, e) == [out |-> out, keys |-> keys, err |-> e]

\* let { paths = {}, components = { schemas: {} } } = input, and the
\* raw-schema replacement of components.
ClosurePaths == IF Has(input, "paths") THEN Get(input, "paths") ELSE <<>>
ClosureComponents ==
  IF rawSchema THEN <<E("schemas", input)>>
  ELSE IF Has(input, "components") THEN Get(input, "components")
  ELSE <<E("schemas", <<>>)>>

\* parts.reduce((value, property) => value[property], input): the document,
\* its components and a component map are ordered maps; reading a property
\* of undefined throws.
RECURSIVE Walk(_, _)
Walk(value, parts) ==
  IF parts = <<>> THEN [threw |-> FALSE, defined |-> TRUE, v |-> value]
  ELSE IF IsSpelling(Head(parts)) /\ Has(value, Unspell(Head(parts)))
  THEN Walk(Get(value, Unspell(Head(parts))), Tail(parts))
  ELSE [threw |-> Len(parts) > 1, defined |-> FALSE, v |-> Undefined]

\* A write the code does not make: the first entry of a pair is kept.
PutParameterFirst(allParameters, loc, name, entry) ==
  IF Has(allParameters, loc) /\ Has(Get(allParameters, loc), name)
  THEN allParameters
  ELSE Put(allParameters, loc,
           Put(IF Has(allParameters, loc) THEN Get(allParameters, loc) ELSE <<>>,
               name, entry))

\* allParameters[loc][name] = entry
PutParameter(allParameters, loc, name, entry) ==
  Put(allParameters, loc,
      Put(IF Has(allParameters, loc) THEN Get(allParameters, loc) ELSE <<>>, name, entry))

\* The first loop of transformParameters: allParameters[in][name], a text
\* (str) for a reference and the parameter (param) otherwise.
RECURSIVE CollectParameters(_, _)
CollectParameters(parameters, allParameters) ==
  IF parameters = <<>> THEN [all |-> allParameters, err |-> ""]
  ELSE IF "ref" \in DOMAIN Head(parameters)
  THEN Bind(Walk(input, Split(Substr(Head(parameters).ref, 2), <<"/">>)), LAMBDA found :
         IF found.threw \/ ~found.defined
         THEN [all |-> allParameters, err |-> "TypeError"]
         ELSE CollectParameters(
                Tail(parameters),
                PutParameter(allParameters, found.v["in"], found.v.name,
                             [str |-> transformRef(Head(parameters).ref, <<>>)])))
  ELSE CollectParameters(
         Tail(parameters),
         PutParameter(allParameters, Head(parameters)["in"], Head(parameters).name,
                      [param |-> Head(parameters)]))

\* The field of a reference entry.
RefParamText(paramName, paramProps) ==
  Lit("\"") \o Name(paramName) \o Lit("\"")
    \o (IF Truthy(unrefComponent(ClosureComponents, paramProps), "required")
        THEN <<>> ELSE Lit("?"))
    \o Lit(": ") \o paramProps \o Lit("\n")

\* The field of an inline entry.
InlineParamText(paramName, param, type) ==
  (IF "description" \in DOMAIN param THEN comment(param.description) ELSE <<>>)
    \o Lit("\"") \o Name(paramName) \o Lit("\"")
    \o (IF "required" \in DOMAIN param /\ param.required = TRUE THEN <<>> ELSE Lit("?"))
    \o Lit(": ") \o type \o Lit(";\n")

\* The fields of one location record.
RECURSIVE EmitLocParams(_, _)
EmitLocParams(locParams, keys) ==
  IF locParams = <<>> THEN R(<<>>, keys)
  ELSE
    Bind(IF "str" \in DOMAIN locParams[1].v
         THEN R(RefParamText(locParams[1].k, locParams[1].v.str), keys)
         ELSE Bind(transform(FieldOr(locParams[1].v.param, "schema", Undefined), keys),
                   LAMBDA type :
                R(InlineParamText(locParams[1].k, locParams[1].v.param, type.out),
                  type.keys)), LAMBDA first :
    Bind(EmitLocParams(Tail(locParams), first.keys), LAMBDA rest :
      R(first.out \o rest.out, rest.keys)))

\* The second loop of transformParameters: one record per location.
RECURSIVE EmitAllParameters(_, _)
EmitAllParameters(allParameters, keys) ==
  IF allParameters = <<>> THEN R(<<>>, keys)
  ELSE Bind(EmitLocParams(allParameters[1].v, keys), LAMBDA fields :
       Bind(EmitAllParameters(Tail(allParameters), fields.keys), LAMBDA rest :
         R(Lit("\"") \o <<Tok("loc", allParameters[1].k)>> \o Lit("\": ") \o Open("{")
             \o Lit("\n") \o fields.out \o Close("}") \o Lit("\n") \o rest.out,
           rest.keys)))

transformParameters(parameters, keys) ==
  Bind(CollectParameters(parameters, <<>>), LAMBDA collected :
    IF collected.err # "" THEN RE(<<>>, keys, collected.err)
    ELSE Bind(EmitAllParameters(collected.all, keys), LAMBDA emitted :
           RE(Lit("parameters: ") \o Open("{") \o Lit("\n") \o emitted.out
                \o Close("}") \o Lit("\n"),
              emitted.keys, "")))

\* The entries of a content map: "<contentType>": <type>;
RECURSIVE EmitContent(_, _)
EmitContent(content, keys) ==
  IF content = <<>> THEN R(<<>>, keys)
  ELSE Bind(transform(FieldOr(content[1].v, "schema", Undefined), keys), LAMBDA type :
       Bind(EmitContent(Tail(content), type.keys), LAMBDA rest :
         R(Lit("\"") \o <<Tok("media", content[1].k)>> \o Lit("\": ") \o type.out
             \o Lit(";\n") \o rest.out,
           rest.keys)))

\* const statusCode = Number(statusCodeString) || statusCodeString
StatusIsNumber(statusCodeString) ==
  Number(statusCodeString) # NaN /\ Number(statusCodeString) # 0
\* `${statusCode}`
StatusText(statusCodeString) ==
  IF StatusIsNumber(statusCodeString)
  THEN NumberToString(Number(statusCodeString))
  ELSE statusCodeString
\* A typing the code does not make: never for 204 alone.
EmptyResponseTypeOnly204(statusCodeString) ==
  IF StatusIsNumber(statusCodeString) /\ Number(statusCodeString) = 204
  THEN "never" ELSE "unknown"

\* statusCode === 204 || Math.floor(+statusCode / 100) === 3 ? "never" : "unknown"
EmptyResponseType(statusCodeString) ==
  IF /\ StatusIsNumber(statusCodeString)
     /\ \/ Number(statusCodeString) = 204
        \/ Number(statusCodeString) \div 100 = 3
  THEN "never" ELSE "unknown"

\* if (!response.content || !Object.keys(response.content).length)
HasNoContent(response) == "content" \notin DOMAIN response \/ response.content = <<>>

\* One entry of the responses map; body is the transformed content map.
ResponseText(statusCodeString, response, body) ==
  (IF "description" \in DOMAIN response THEN comment(response.description) ELSE <<>>)
    \o <<Tok("status", StatusText(statusCodeString))>> \o Lit(": ")
    \o (IF HasNoContent(response)
        THEN Lit(EmptyResponseType(statusCodeString)) \o Lit(";\n")
        ELSE Open("{") \o Lit("\n") \o body \o Close("}") \o Lit("\n"))

\* The entries of the responses map.  A null response is [null |-> TRUE].
RECURSIVE EmitResponses(_, _)
EmitResponses(responses, keys) ==
  IF responses = <<>> THEN R(<<>>, keys)
  ELSE
    Bind(IF "null" \in DOMAIN responses[1].v \/ HasNoContent(responses[1].v)
         THEN R(<<>>, keys)
         ELSE EmitContent(responses[1].v.content, keys), LAMBDA body :
    Bind(EmitResponses(Tail(responses), body.keys), LAMBDA rest :
      R((IF "null" \in DOMAIN responses[1].v THEN <<>>
         ELSE ResponseText(responses[1].k, responses[1].v, body.out)) \o rest.out,
        rest.keys)))

transformOperation(operation, keys) ==
  Bind(IF "parameters" \in DOMAIN operation
       THEN transformParameters(operation.parameters, keys)
       ELSE RE(<<>>, keys, ""), LAMBDA params :
    IF params.err # "" THEN RE(<<>>, keys, params.err)
    ELSE
    Bind(IF "requestBody" \in DOMAIN operation
         THEN EmitContent(FieldOr(operation.requestBody, "content", <<>>), params.keys)
         ELSE R(<<>>, params.keys), LAMBDA body :
    Bind(EmitResponses(operation.responses, body.keys), LAMBDA responses :
      RE(Open("{") \o Lit("\n")
           \o params.out
           \o (IF "requestBody" \in DOMAIN operation
               THEN Lit("requestBody: ") \o Open("{") \o Lit("\n") \o body.out
                      \o Close("}") \o Lit("\n")
               ELSE <<>>)
           \o Lit("responses: ") \o Open("{") \o Lit("\n") \o responses.out
           \o Close("}") \o Lit("\n")
           \o Close("}") \o Lit("\n"),
         responses.keys, ""))))

Methods == {"get", "put", "post", "delete", "options", "head", "patch", "trace"}

RP(out, keys, ops, e) == [out |-> out, keys |-> keys, ops |-> ops, err |-> e]

\* Two registrations the code does not make: one that keeps the operation
\* registered first, one that adds an entry at every registration.
RegisterFirst(ops, operationId, operation) ==
  IF Has(ops, operationId) THEN ops ELSE Append(ops, E(operationId, operation))
RegisterEvery(ops, operationId, operation) == Append(ops, E(operationId, operation))

\* operations[operation.operationId] = operation
Register(ops, operationId, operation) == Put(ops, operationId, operation)

\* One method field of a path item: a reference to a named operation, or the
\* operation inline.
MethodText(field, operation, keys, ops) ==
  IF "operationId" \in DOMAIN operation
  THEN RP(Lit("\"") \o <<Tok("method", field)>> \o Lit("\": operations[\"")
            \o <<Tok("opref", operation.operationId)>> \o Lit("\"];\n"),
          keys, Register(ops, operation.operationId, operation), "")
  ELSE Bind(transformOperation(operation, keys), LAMBDA inline :
         RP((IF "description" \in DOMAIN operation
             THEN comment(operation.description) ELSE <<>>)
              \o Lit("\"") \o <<Tok("method", field)>> \o Lit("\": ") \o inline.out,
            inline.keys, ops, inline.err))

\* The fields of one path item that are methods.
RECURSIVE EmitMethods(_, _, _)
EmitMethods(pathItem, keys, ops) ==
  IF pathItem = <<>> THEN RP(<<>>, keys, ops, "")
  ELSE IF pathItem[1].k \notin Methods THEN EmitMethods(Tail(pathItem), keys, ops)
  ELSE Bind(MethodText(pathItem[1].k, pathItem[1].v, keys, ops), LAMBDA first :
         IF first.err # "" THEN first
         ELSE Bind(EmitMethods(Tail(pathItem), first.keys, first.ops), LAMBDA rest :
                RP(first.out \o rest.out, rest.keys, rest.ops, rest.err)))

\* The shared parameters of a path item are the record [list |-> <<...>>].
RECURSIVE transformPaths(_, _, _)
transformPaths(paths, keys, ops) ==
  IF paths = <<>> THEN RP(<<>>, keys, ops, "")
  ELSE
    Bind(EmitMethods(paths[1].v, keys, ops), LAMBDA methods :
      IF methods.err # "" THEN methods
      ELSE
      Bind(IF Has(paths[1].v, "parameters")
           THEN transformParameters(Get(paths[1].v, "parameters").list, methods.keys)
           ELSE RE(<<>>, methods.keys, ""), LAMBDA shared :
        IF shared.err # "" THEN RP(<<>>, keys, methods.ops, shared.err)
        ELSE
        Bind(transformPaths(Tail(paths), shared.keys, methods.ops), LAMBDA rest :
          RP(Lit("\"") \o <<Tok("path", paths[1].k)>> \o Lit("\": ") \o Open("{")
               \o Lit("\n") \o methods.out \o shared.out \o Close("}") \o Lit("\n")
               \o rest.out,
             rest.keys, rest.ops, rest.err))))

\* One import binding and one mapping entry, for the key at position i.
ImportText(keys, i) ==
  Lit("import { schemas as external$") \o Ch(NumberToString(i - 1))
    \o Lit(" } from \"./") \o Ch(keys[i]) \o Lit("\"")
MappingText(keys, i) ==
  Lit("\"") \o Ch(keys[i]) \o Lit("\": external$") \o Ch(NumberToString(i - 1))

createExternalFileMapping(keys) ==
  IF Len(keys) = 0 THEN <<>>
  ELSE JoinText([i \in 1..Len(keys) |-> ImportText(keys, i)], "\n") \o Lit("\n\n")
         \o JoinText(<<Lit("export type external = {")>>
                       \o [i \in 1..Len(keys) |-> MappingText(keys, i)]
                       \o <<Lit("}")>>, "\n")
         \o Lit("\n\n")

\* The entries of the operations block.
RECURSIVE EmitOperations(_, _)
EmitOperations(ops, keys) ==
  IF ops = <<>> THEN RE(<<>>, keys, "")
  ELSE Bind(transformOperation(ops[1].v, keys), LAMBDA one :
         IF one.err # "" THEN one
         ELSE Bind(EmitOperations(Tail(ops), one.keys), LAMBDA rest :
                RE((IF "description" \in DOMAIN ops[1].v
                    THEN comment(ops[1].v.description) ELSE <<>>)
                     \o Lit("\"") \o <<Tok("opid", ops[1].k)>> \o Lit("\": ")
                     \o one.out \o rest.out,
                   rest.keys, rest.err)))

\* createKeys(m, Object.keys(m)) inside a named section of a block.
Section(header, m, keys) ==
  Bind(createKeys(m, Arg(TRUE, Keys(m)), keys), LAMBDA fields :
    R(Lit(header) \o Open("{") \o Lit("\n  ") \o fields.out \o Lit("\n") \o Close("}"),
      fields.keys))

----------------------------------------------------------------------------
(* generateTypesV3, step by step.                                          *)

\* A shape check the code does not make: one root missing is enough.
LacksEitherRoot == ~Has(input, "components") \/ ~Has(input, "paths")

\* !input.components && !input.paths
LacksRoots == ~Has(input, "components") /\ ~Has(input, "paths")

\* Lines 37-49: the options, the shape check, the two accumulators.
CheckShape ==
  /\ pc = "start"
  /\ IF ~rawSchema /\ LacksRoots
     THEN pc' = "threw" /\ err' = "InvalidDocumentShape"
     ELSE pc' = "checked" /\ err' = ""
  /\ operations' = <<>>
  /\ externalFileKeys' = <<>>
  /\ UNCHANGED <<input, rawSchema, finalOutput, arg, resolved>>

\* Lines 295-299: the raw-schema return.
ReturnWith(block) ==
  /\ finalOutput' = block.out
  /\ externalFileKeys' = block.keys
  /\ pc' = "done"
  /\ UNCHANGED <<input, rawSchema, operations, err, arg, resolved>>

ReturnRawSchemas ==
  /\ pc = "checked" /\ rawSchema
  /\ ReturnWith(Section("export interface schemas ",
                        propertyMapper(Get(ClosureComponents, "schemas")),
                        externalFileKeys))

\* Lines 301-311: the paths block.
PathsBlockWith(r) ==
  IF ClosurePaths = <<>>
  THEN pc' = "paths" /\ UNCHANGED <<finalOutput, operations, externalFileKeys, err>>
  ELSE IF r.err # ""
  THEN pc' = "threw" /\ err' = r.err
       /\ UNCHANGED <<finalOutput, operations, externalFileKeys>>
  ELSE /\ pc' = "paths"
       /\ finalOutput' = finalOutput \o Lit("export interface paths ") \o Open("{")
                           \o Lit("\n  ") \o r.out \o Lit("\n") \o Close("}")
                           \o Lit("\n\n")
       /\ operations' = r.ops
       /\ externalFileKeys' = r.keys
       /\ err' = err

PathsBlock ==
  /\ pc = "checked" /\ ~rawSchema
  /\ PathsBlockWith(transformPaths(ClosurePaths, externalFileKeys, operations))
  /\ UNCHANGED <<input, rawSchema, arg, resolved>>

\* Lines 313-319: the operations block.
OperationsBlockWith(r) ==
  IF r.err # ""
  THEN pc' = "threw" /\ err' = r.err /\ UNCHANGED <<finalOutput, externalFileKeys>>
  ELSE /\ pc' = "operations"
       /\ finalOutput' = finalOutput \o Lit("export interface operations ")
                           \o Open("{") \o Lit("\n") \o r.out \o Lit("\n")
                           \o Close("}") \o Lit("\n\n")
       /\ externalFileKeys' = r.keys
       /\ err' = err

OperationsBlock ==
  /\ pc = "paths"
  /\ OperationsBlockWith(EmitOperations(operations, externalFileKeys))
  /\ UNCHANGED <<input, rawSchema, operations, arg, resolved>>

\* Lines 321-343: the text of the components block.  Object.keys of an
\* undefined propertyMapped (components without schemas) throws.
NonEmpty(components, name) == Has(components, name) /\ Get(components, name) # <<>>

ComponentsText(components, keys) ==
  Bind(IF NonEmpty(components, "parameters")
       THEN Section("parameters: ", Get(components, "parameters"), keys)
       ELSE R(<<>>, keys), LAMBDA parameters :
    IF ~Has(components, "schemas") THEN RE(<<>>, parameters.keys, "TypeError")
    ELSE
    Bind(IF propertyMapper(Get(components, "schemas")) # <<>>
         THEN Section("schemas: ", propertyMapper(Get(components, "schemas")),
                      parameters.keys)
         ELSE R(<<>>, parameters.keys), LAMBDA schemas :
    Bind(IF NonEmpty(components, "responses")
         THEN Section("responses: ", Get(components, "responses"), schemas.keys)
         ELSE R(<<>>, schemas.keys), LAMBDA responses :
      RE(Lit("export interface components ") \o Open("{") \o Lit("\n")
           \o (IF NonEmpty(components, "parameters")
               THEN Lit("\n") \o parameters.out \o Lit("\n") ELSE <<>>)
           \o schemas.out
           \o (IF NonEmpty(components, "responses")
               THEN Lit("\n") \o responses.out ELSE <<>>)
           \o Lit("\n") \o Close("}"),
         responses.keys, ""))))

ComponentsBlockWith(r) ==
  IF r.err # ""
  THEN pc' = "threw" /\ err' = r.err /\ UNCHANGED <<finalOutput, externalFileKeys>>
  ELSE /\ pc' = "components"
       /\ finalOutput' = finalOutput \o r.out
       /\ externalFileKeys' = r.keys
       /\ err' = err

ComponentsBlock ==
  /\ pc = "operations"
  /\ ComponentsBlockWith(ComponentsText(ClosureComponents, externalFileKeys))
  /\ UNCHANGED <<input, rawSchema, operations, arg, resolved>>

\* A return the code does not make: the imports go last.
ReturnOutputImportsLast ==
  /\ pc = "components"
  /\ finalOutput' = finalOutput \o createExternalFileMapping(externalFileKeys)
  /\ pc' = "done"
  /\ UNCHANGED <<input, rawSchema, operations, externalFileKeys, err, arg, resolved>>

\* Lines 345-348: the imports go first, and the text is returned.
ReturnOutput ==
  /\ pc = "components"
  /\ finalOutput' = createExternalFileMapping(externalFileKeys) \o finalOutput
  /\ pc' = "done"
  /\ UNCHANGED <<input, rawSchema, operations, externalFileKeys, err, arg, resolved>>

----------------------------------------------------------------------------
(* The documents generateTypesV3 is run on.                                *)

RefExtW == <<"o", ".", "j", "s", "o", "n", "#", "/", "W">>          \* o.json#/W
RefExtV == <<"q", "#", "/", "d", "/", "V">>                          \* q#/d/V
RefExtBare == <<"o", ".", "j", "s", "o", "n">>                       \* o.json
RefPet == <<"#", "/">> \o Spell("components") \o <<"/">> \o Spell("schemas") \o <<"/", "P">>
RefRawPet == <<"#", "/", "P">>                                       \* #/P
RefParam(name) ==
  <<"#", "/">> \o Spell("components") \o <<"/">> \o Spell("parameters") \o <<"/", name>>
RefExtParam == <<"o", ".", "j", "s", "o", "n", "#", "/", "A">>      \* o.json#/A

S200 == <<"2", "0", "0">>
S204 == <<"2", "0", "4">>
SDefault == <<"d", "e", "f", "a", "u", "l", "t">>

Pet ==
  [type |-> "object",
   properties |-> <<E("id", [type |-> "integer"]), E("name", [type |-> "string"])>>,
   required |-> <<"id">>]

SchemaMaps ==
  { <<>>,
    <<E("P", Pet)>>,
    <<E("R", [ref |-> RefExtV]), E("L", [type |-> "array", items |-> [ref |-> RefPet]])>> }

ParameterMaps ==
  { <<>>,
    <<E("A", [in |-> "query", name |-> "a", required |-> TRUE, schema |-> [type |-> "string"]]),
      E("B", [in |-> "path", name |-> "b", schema |-> [ref |-> RefExtBare]])>> }

ResponseMaps ==
  { <<>>, <<E("NotFound", [description |-> "not found"])>> }

Option(S) == {[present |-> FALSE]} \cup {[present |-> TRUE, v |-> x] : x \in S}
Field(name, option) == IF option.present THEN <<E(name, option.v)>> ELSE <<>>

ComponentsMaps ==
  { Field("parameters", p) \o Field("schemas", s) \o Field("responses", r) :
      p \in Option(ParameterMaps), s \in Option(SchemaMaps), r \in Option(ResponseMaps) }

OpA1 ==
  [operationId |-> "a", description |-> "first",
   responses |-> <<E(S200, [description |-> "ok"])>>]
OpA2 ==
  [operationId |-> "a",
   responses |-> <<E(S204, [description |-> "gone"])>>]
OpB ==
  [operationId |-> "b",
   parameters |-> <<[ref |-> RefParam("A")]>>,
   responses |-> <<E(SDefault, [content |-> <<E("application/json", [schema |-> [ref |-> RefExtW]])>>])>>]
OpInline ==
  [description |-> "inline",
   requestBody |-> [content |-> <<E("text/plain", [schema |-> [type |-> "string"]])>>],
   responses |-> <<E(S200, [content |-> <<E("application/json", [schema |-> [ref |-> RefExtV]])>>])>>]

PathItems ==
  { <<E("get", OpA1)>>,
    <<E("get", OpA2)>>,
    <<E("get", OpA1), E("post", OpA2)>>,
    <<E("put", OpB)>>,
    <<E("get", OpInline),
      E("parameters",
        [list |-> <<[in |-> "query", name |-> "q", schema |-> [type |-> "integer"]]>>])>>,
    <<E("parameters", [list |-> <<[ref |-> RefExtParam]>>])>> }

PathNames == <<"/p1", "/p2", "/p3", "/p4">>
PathsMaps ==
  UNION { { [i \in 1..n |-> E(PathNames[i], items[i])] : items \in [1..n -> PathItems] } :
            n \in 0..MaxPaths }

Documents ==
  { Field("paths", p) \o Field("components", c) :
      p \in Option(PathsMaps), c \in Option(ComponentsMaps) }

RawInputs ==
  { <<>>,
    <<E("P", Pet)>>,
    <<E("S", [ref |-> RefRawPet]), E("R", [ref |-> RefExtW])>> }

Init ==
  /\ pc = "start"
  /\ \/ rawSchema = TRUE /\ input \in RawInputs
     \/ rawSchema = FALSE /\ input \in Documents
  /\ operations = <<>>
  /\ externalFileKeys = <<>>
  /\ finalOutput = <<>>
  /\ err = ""
  /\ arg = <<>>
  /\ resolved = <<>>

Next ==
  \/ CheckShape
  \/ ReturnRawSchemas
  \/ PathsBlock
  \/ OperationsBlock
  \/ ComponentsBlock
  \/ ReturnOutput

Spec == Init /\ [][Next]_vars

----------------------------------------------------------------------------
(* Reading a text back.                                                    *)

RECURSIVE Sorted(_)
Sorted(S) ==
  IF S = {} THEN <<>>
  ELSE Bind(CHOOSE m \in S : \A x \in S : m <= x, LAMBDA m : <<m>> \o Sorted(S \ {m}))

\* The nesting depth of the token at i: brackets opened and not yet closed.
Depth(text, i) ==
  Cardinality({j \in 1..(i - 1) : text[j].t = "open"})
    - Cardinality({j \in 1..(i - 1) : text[j].t = "close"})

\* The positions of the tokens with tag t, in order.
Positions(text, t) == Sorted({i \in 1..Len(text) : text[i].t = t})
Count(text, tok) == Cardinality({i \in 1..Len(text) : text[i] = tok})

\* The declarations of a text: its depth-0 header literals, in order.
Headers ==
  { "import { schemas as external$", "export type external = {",
    "export interface paths ", "export interface operations ",
    "export interface components ", "export interface schemas " }
TopHeaders(text) ==
  Bind(Sorted({i \in 1..Len(text) :
                 text[i].t = "lit" /\ text[i].v \in Headers /\ Depth(text, i) = 0}),
       LAMBDA at : [n \in 1..Len(at) |-> text[at[n]].v])

\* The sections of the components block: the depth-1 section literals that
\* follow its header, in order.
SectionNames == {"parameters: ", "schemas: ", "responses: "}
ComponentsSections(text) ==
  Bind({i \in 1..Len(text) : text[i] = Tok("lit", "export interface components ")},
       LAMBDA start :
    Bind(Sorted({i \in 1..Len(text) :
                   /\ text[i].t = "lit" /\ text[i].v \in SectionNames
                   /\ Depth(text, i) = 1
                   /\ \E h \in start : h < i}),
         LAMBDA at : [n \in 1..Len(at) |-> text[at[n]].v]))

\* The path a token at i belongs to: the last "path" token before it.
PathAt(text, i) ==
  text[CHOOSE j \in 1..i : text[j].t = "path" /\ \A k \in (j + 1)..i : text[k].t # "path"].v

\* The (path, method, operationId) sites the paths block emits as by-name
\* references, and the (path, method) sites it expands inline.
RefSites(text) ==
  { <<PathAt(text, i), text[i - 2].v, text[i].v>> :
      i \in {j \in 1..Len(text) : text[j].t = "opref"} }
InlineSites(text) ==
  { <<PathAt(text, i), text[i].v>> :
      i \in {j \in 1..Len(text) : /\ text[j].t = "method"
                                  /\ text[j + 1] = Tok("lit", "\": ")
                                  /\ text[j + 2].t = "open"} }

\* Whether part occurs in text as a contiguous run.
Occurs(part, text) ==
  \E i \in 0..(Len(text) - Len(part)) : SubSeq(text, i + 1, i + Len(part)) = part

\* The operations of a document that declare an operationId, as
\* [path, field, op], in traversal order: paths in document order, methods
\* in path-item order.
RECURSIVE ItemSites(_, _)
ItemSites(path, pathItem) ==
  IF pathItem = <<>> THEN <<>>
  ELSE (IF pathItem[1].k \in Methods /\ "operationId" \in DOMAIN pathItem[1].v
        THEN <<[path |-> path, field |-> pathItem[1].k, op |-> pathItem[1].v]>>
        ELSE <<>>)
         \o ItemSites(path, Tail(pathItem))
RECURSIVE Sites(_)
Sites(paths) ==
  IF paths = <<>> THEN <<>> ELSE ItemSites(paths[1].k, paths[1].v) \o Sites(Tail(paths))

SitesOf(id) == SelectSeq(Sites(ClosurePaths), LAMBDA s : s.op.operationId = id)
SharedIds == {id \in {"a", "b"} : Len(SitesOf(id)) >= 2}
DeclaredIds == {id \in {"a", "b"} : Len(SitesOf(id)) >= 1}

----------------------------------------------------------------------------
(* Claims checked on generateTypesV3 (Spec).                               *)

\* C1: in non-raw mode a document with neither paths nor components fails
\* with InvalidDocumentShape before anything is transformed: no text, and
\* nothing in the operations table or the external key set; raw-mode inputs
\* and documents with one of the two never raise this error.
C1_InvalidShapeFirst ==
  /\ (pc # "start" /\ ~rawSchema /\ ~Has(input, "paths") /\ ~Has(input, "components"))
       => /\ pc = "threw" /\ err = "InvalidDocumentShape"
          /\ finalOutput = <<>> /\ operations = <<>> /\ externalFileKeys = <<>>
  /\ (rawSchema \/ Has(input, "paths") \/ Has(input, "components"))
       => err # "InvalidDocumentShape"
C1_Witness ==
  pc = "threw" /\ err = "InvalidDocumentShape" /\ ~rawSchema /\ input = <<>>

\* C2: an operationId declared at two or more (path, method) sites has
\* exactly one entry in the operations block, and each of its sites in the
\* paths block is a by-name reference, never an inline expansion.
C2_HoistedOnce ==
  (pc = "done" /\ ~rawSchema) =>
    \A id \in SharedIds :
      /\ Count(finalOutput, Tok("opid", id)) = 1
      /\ \A n \in 1..Len(SitesOf(id)) :
           /\ <<SitesOf(id)[n].path, SitesOf(id)[n].field, id>> \in RefSites(finalOutput)
           /\ <<SitesOf(id)[n].path, SitesOf(id)[n].field>> \notin InlineSites(finalOutput)
C2_Witness ==
  /\ pc = "done" /\ ~rawSchema
  /\ \E id \in SharedIds : \E m, n \in 1..Len(SitesOf(id)) :
       SitesOf(id)[m].path # SitesOf(id)[n].path

C4_OnlyInvalidShape ==
  pc = "threw" =>
    /\ err = "InvalidDocumentShape"
    /\ ~rawSchema /\ ~Has(input, "paths") /\ ~Has(input, "components")

\* C8: the returned text is, in this order, the import text (iff an external
\* key was collected), the paths block (iff the document has a path), the
\* operations block, and the components block with its parameters, schemas
\* and responses sections in that order, each iff its map is non-empty; in
\* raw-schema mode it is the schemas declaration alone.
ExpectedHeaders ==
  (IF externalFileKeys # <<>>
   THEN [i \in 1..Len(externalFileKeys) |-> "import { schemas as external$"]
          \o <<"export type external = {">>
   ELSE <<>>)
    \o (IF Has(input, "paths") /\ Get(input, "paths") # <<>>
        THEN <<"export interface paths ">> ELSE <<>>)
    \o <<"export interface operations ", "export interface components ">>
ExpectedSections ==
  SelectSeq(<<"parameters", "schemas", "responses">>,
            LAMBDA name : /\ Has(input, "components")
                          /\ Has(Get(input, "components"), name)
                          /\ Get(Get(input, "components"), name) # <<>>)
C8_OutputOrder ==
  pc = "done" =>
    IF rawSchema
    THEN /\ TopHeaders(finalOutput) = <<"export interface schemas ">>
         /\ ComponentsSections(finalOutput) = <<>>
    ELSE /\ TopHeaders(finalOutput) = ExpectedHeaders
         /\ ComponentsSections(finalOutput)
              = [i \in 1..Len(ExpectedSections) |->
                   CASE ExpectedSections[i] = "parameters" -> "parameters: "
                     [] ExpectedSections[i] = "schemas" -> "schemas: "
                     [] ExpectedSections[i] = "responses" -> "responses: "]
C8_Witness ==
  /\ pc = "done" /\ ~rawSchema
  /\ externalFileKeys # <<>>
  /\ operations = <<>>
  /\ Len(TopHeaders(finalOutput)) >= 5
  /\ Len(ComponentsSections(finalOutput)) = 3

----------------------------------------------------------------------------
(* transform on enum nodes (SpecEnum).                                     *)

\* All strings over alphabet of length 0..n.
RECURSIVE Strings(_, _)
Strings(alphabet, n) ==
  IF n = 0 THEN {<<>>}
  ELSE Strings(alphabet, n - 1)
         \cup {Append(s, c) : s \in {x \in Strings(alphabet, n - 1) : Len(x) = n - 1},
                              c \in alphabet}

EnumAlphabet == {"a", Quote, Backslash}
EnumStrings == {[str |-> s] : s \in Strings(EnumAlphabet, MaxStrLen)}
EnumSeconds == {[str |-> <<"a">>], [str |-> <<Quote>>], [num |-> 42], [bool |-> TRUE]}
EnumNodes ==
  {[enum |-> <<x>>] : x \in EnumStrings \cup {[num |-> 42], [bool |-> FALSE]}}
    \cup {[enum |-> <<x, y>>] : x \in EnumStrings, y \in EnumSeconds}

InitEnum ==
  /\ pc = "enum"
  /\ arg \in EnumNodes
  /\ input = <<>> /\ rawSchema = FALSE
  /\ operations = <<>> /\ externalFileKeys = <<>> /\ finalOutput = <<>>
  /\ err = "" /\ resolved = <<>>

\* transform(arg) for an enum node.
TransformEnum ==
  /\ pc = "enum"
  /\ finalOutput' = transform(arg, externalFileKeys).out
  /\ pc' = "enum returned"
  /\ UNCHANGED <<input, rawSchema, operations, externalFileKeys, err, arg, resolved>>

NextEnum == TransformEnum
SpecEnum == InitEnum /\ [][NextEnum]_vars

\* The members of an emitted union: the texts between its brackets, split at
\* the separator.
RECURSIVE SplitText(_, _)
SplitText(text, sep) ==
  Bind({i \in 1..Len(text) : text[i] = sep}, LAMBDA hits :
    IF hits = {} THEN <<text>>
    ELSE Bind(CHOOSE i \in hits : \A j \in hits : i <= j, LAMBDA i :
           <<SubSeq(text, 1, i - 1)>> \o SplitText(SubSeq(text, i + 1, Len(text)), sep)))
UnionMembers(text) == SplitText(SubSeq(text, 2, Len(text) - 1), Tok("lit", ") | ("))

\* Lexing a single-quoted literal from position i (past the opening quote):
\* a backslash escapes the next character, a quote closes the literal.  The
\* position of the closing quote, 0 when the literal is not closed.
RECURSIVE ClosingQuote(_, _)
ClosingQuote(lit, i) ==
  IF i > Len(lit) THEN 0
  ELSE IF lit[i] = Backslash THEN ClosingQuote(lit, i + 2)
  ELSE IF lit[i] = Quote THEN i
  ELSE ClosingQuote(lit, i + 1)

\* The string a literal body denotes: an escaped character stands for itself.
RECURSIVE Denoted(_)
Denoted(body) ==
  IF body = <<>> THEN <<>>
  ELSE IF Head(body) = Backslash /\ Len(body) >= 2
  THEN <<body[2]>> \o Denoted(SubSeq(body, 3, Len(body)))
  ELSE <<Head(body)>> \o Denoted(Tail(body))

IsOneLiteralOf(lit, s) ==
  /\ Len(lit) >= 2 /\ lit[1] = Quote
  /\ ClosingQuote(lit, 2) = Len(lit)
  /\ Denoted(SubSeq(lit, 2, Len(lit) - 1)) = s

\* C6 as stated: for every string member of an enum that contains a quote,
\* the emitted literal is exactly one single-quoted string literal (its first
\* unescaped quote after the opening one is its last character) and denotes
\* the member.
C6_QuotedMemberIsOneLiteral ==
  pc = "enum returned" =>
    \A i \in 1..Len(arg.enum) :
      ("str" \in DOMAIN arg.enum[i] /\ Includes(arg.enum[i].str, Quote))
        => IsOneLiteralOf(Chars(UnionMembers(finalOutput)[i]), arg.enum[i].str)

C6_Reached ==
  /\ pc = "enum returned"
  /\ \E i \in 1..Len(arg.enum) :
       "str" \in DOMAIN arg.enum[i] /\ Includes(arg.enum[i].str, Quote)

----------------------------------------------------------------------------
(* transformOperation on the responses of an operation (SpecResponses).    *)

\* Status keys: a first character 2, 3 or 4, then characters of 0, 4 and X,
\* and "default".
StatusKeys ==
  {<<c>> \o s : c \in {"2", "3", "4"},
                s \in {x \in Strings({"0", "4", "X"}, MaxStatusLen - 1) : Len(x) >= 2}}
    \cup {SDefault}

JsonString == <<E("application/json", [schema |-> [type |-> "string"]])>>
Responses ==
  { [description |-> "d"], [content |-> <<>>], [content |-> JsonString], [null |-> TRUE] }
ResponseMapsOfOperation ==
  {<<E(k, r)>> : k \in StatusKeys, r \in Responses}
    \cup {<<E(k, r), E(SDefault, d)>> :
            k \in StatusKeys \ {SDefault}, r \in Responses, d \in Responses}

InitResponses ==
  /\ pc = "responses"
  /\ arg \in {[responses |-> m] : m \in ResponseMapsOfOperation}
  /\ input = <<>> /\ rawSchema = FALSE
  /\ operations = <<>> /\ externalFileKeys = <<>> /\ finalOutput = <<>>
  /\ err = "" /\ resolved = <<>>

\* transformOperation(arg)
TransformOperation ==
  /\ pc = "responses"
  /\ finalOutput' = transformOperation(arg, externalFileKeys).out
  /\ pc' = "responses returned"
  /\ UNCHANGED <<input, rawSchema, operations, externalFileKeys, err, arg, resolved>>

NextResponses == TransformOperation
SpecResponses == InitResponses /\ [][NextResponses]_vars

\* The entries of an emitted responses map: the status as written, and the
\* type written after it ("map" for a content-type-keyed map).
EmittedResponses(text) ==
  Bind(Positions(text, "status"), LAMBDA at :
    [n \in 1..Len(at) |->
       [status |-> text[at[n]].v,
        type |-> IF text[at[n] + 2].t = "open" THEN "map" ELSE text[at[n] + 2].v]])

\* A status key is numeric when it is made of digits; its status is then its
\* decimal value.
IsNumericKey(k) == \A i \in 1..Len(k) : k[i] \in {"0", "1", "2", "3", "4", "5", "6", "7", "8", "9"}
Is3xx(k) == IsNumericKey(k) /\ DigitsValue(k) >= 300 /\ DigitsValue(k) <= 399
Is204(k) == k = S204
ExpectedResponseType(k, response) ==
  IF "content" \in DOMAIN response /\ response.content # <<>> THEN "map"
  ELSE IF Is204(k) \/ Is3xx(k) THEN "never"
  ELSE "unknown"
PresentResponses(m) == SelectSeq(m, LAMBDA e : "null" \notin DOMAIN e.v)

\* C5: a response without content (absent or empty) is typed never for 204
\* and for the statuses 300..399 and unknown for every other key, "default"
\* included; a response with content is a content-type-keyed map; a numeric
\* key is written as that number and "default" as it is.
C5_EmptyResponseTypes ==
  pc = "responses returned" =>
    EmittedResponses(finalOutput)
      = [n \in 1..Len(PresentResponses(arg.responses)) |->
           [status |-> PresentResponses(arg.responses)[n].k,
            type |-> ExpectedResponseType(PresentResponses(arg.responses)[n].k,
                                          PresentResponses(arg.responses)[n].v)]]
C5_Witness ==
  /\ pc = "responses returned"
  /\ \E i \in 1..Len(arg.responses) :
       /\ arg.responses[i].k = <<"3", "0", "4">>
       /\ arg.responses[i].v = [content |-> <<>>]
  /\ \E i \in 1..Len(arg.responses) :
       arg.responses[i].k = SDefault /\ arg.responses[i].v = [description |-> "d"]
  /\ \E i \in 1..Len(finalOutput) : finalOutput[i] = Tok("lit", "never")
  /\ \E i \in 1..Len(finalOutput) : finalOutput[i] = Tok("lit", "unknown")

----------------------------------------------------------------------------
(* transformRefType called again and again in one run, then                *)
(* createExternalFileMapping (SpecRefs).                                   *)

\* An external reference is written from a document name, an extension and
\* an in-document path; an internal one starts with "#".
DocNames == {<<"o">>, <<"q", "r">>}
Extensions == {<<>>, DotJson}
DocPaths == {<<>>, <<"#", "/", "W">>, <<"#", "/", "d", "/", "V">>}
InternalRefs == {RefPet, RefRawPet}

InitRefs ==
  /\ pc = "refs"
  /\ resolved = <<>> /\ externalFileKeys = <<>>
  /\ input = <<>> /\ rawSchema = FALSE
  /\ operations = <<>> /\ finalOutput = <<>> /\ err = "" /\ arg = <<>>

\* One call transformRefType(ref); resolved keeps the calls made: the
\* reference and the document it names (<<>> for an internal reference).
ResolveTo(ref, doc) ==
  /\ pc = "refs"
  /\ Len(resolved) < MaxRefCalls
  /\ externalFileKeys' = transformRefType(ref, <<>>, externalFileKeys).keys
  /\ resolved' = Append(resolved, [ref |-> ref, doc |-> doc])
  /\ UNCHANGED <<pc, input, rawSchema, operations, finalOutput, err, arg>>

ResolveExternal ==
  \E doc \in DocNames, ext \in Extensions, path \in DocPaths :
    ResolveTo(doc \o ext \o path, doc)

ResolveInternal == \E ref \in InternalRefs : ResolveTo(ref, <<>>)

\* createExternalFileMapping(), as the last step of the run.
EmitMapping ==
  /\ pc = "refs"
  /\ finalOutput' = createExternalFileMapping(externalFileKeys)
  /\ pc' = "refs returned"
  /\ UNCHANGED <<input, rawSchema, operations, externalFileKeys, err, arg, resolved>>

NextRefs == ResolveExternal \/ ResolveInternal \/ EmitMapping
SpecRefs == InitRefs /\ [][NextRefs]_vars

\* The documents named by the calls made, each once, in the order in which
\* they were first named.
RECURSIVE Discovered(_)
Discovered(calls) ==
  IF calls = <<>> THEN <<>>
  ELSE Bind(Discovered(SubSeq(calls, 1, Len(calls) - 1)), LAMBDA before :
         IF calls[Len(calls)].doc = <<>> \/ Includes(before, calls[Len(calls)].doc)
         THEN before
         ELSE Append(before, calls[Len(calls)].doc))

\* The alias number and the key of the n-th import binding and of the n-th
\* mapping entry of a text: the character runs that follow the n-th
\* "import" literal, and the ones around the n-th alias of a mapping entry.
ImportAt(text) ==
  Sorted({i \in 1..Len(text) : text[i] = Tok("lit", "import { schemas as external$")})
MappingAt(text) ==
  Sorted({i \in 1..Len(text) : text[i] = Tok("lit", "\": external$")})
RunFrom(text, i) ==
  Bind({j \in i..(Len(text) + 1) : j > Len(text) \/ text[j].t # "ch"}, LAMBDA stops :
    Chars(SubSeq(text, i, (CHOOSE j \in stops : \A k \in stops : j <= k) - 1)))
RunUpTo(text, i) ==
  Bind({j \in 0..i : j = 0 \/ text[j].t # "ch"}, LAMBDA stops :
    Chars(SubSeq(text, (CHOOSE j \in stops : \A k \in stops : j >= k) + 1, i)))
Imports(text) ==
  Bind(ImportAt(text), LAMBDA at :
    [n \in 1..Len(at) |->
       Bind(RunFrom(text, at[n] + 1), LAMBDA alias :
         [alias |-> alias, key |-> RunFrom(text, at[n] + Len(alias) + 2)])])
Mappings(text) ==
  Bind(MappingAt(text), LAMBDA at :
    [n \in 1..Len(at) |->
       [alias |-> RunFrom(text, at[n] + 1), key |-> RunUpTo(text, at[n] - 1)]])

----------------------------------------------------------------------------
(* transformParameters on a parameter list (SpecParameters).               *)

\* The component parameters of the document the lists refer to.
ParamA == [in |-> "query", name |-> "x", required |-> TRUE, schema |-> [type |-> "string"]]
ParamB == [in |-> "query", name |-> "y", schema |-> [type |-> "integer"]]
ParamC == [in |-> "path", name |-> "x", required |-> FALSE, schema |-> [type |-> "string"]]
ParametersDocument ==
  <<E("components",
      <<E("parameters", <<E("A", ParamA), E("B", ParamB), E("C", ParamC)>>)>>)>>

InlineParameters ==
  {[in |-> loc, name |-> n, required |-> TRUE, schema |-> [type |-> "string"]] :
     loc \in {"query", "path"}, n \in {"x", "y"}}
    \cup {[in |-> loc, name |-> n, schema |-> [type |-> "integer"]] :
            loc \in {"query", "path"}, n \in {"x", "y"}}
ReferenceParameters == {[ref |-> RefParam(c)] : c \in {"A", "B", "C"}}
RECURSIVE ParameterLists(_)
ParameterLists(n) ==
  IF n = 0 THEN {<<>>}
  ELSE ParameterLists(n - 1)
         \cup {Append(l, p) : l \in {x \in ParameterLists(n - 1) : Len(x) = n - 1},
                              p \in InlineParameters \cup ReferenceParameters}

InitParameters ==
  /\ pc = "parameters"
  /\ input = ParametersDocument /\ rawSchema = FALSE
  /\ arg \in ParameterLists(MaxParams)
  /\ operations = <<>> /\ externalFileKeys = <<>> /\ finalOutput = <<>>
  /\ err = "" /\ resolved = <<>>

TransformParametersWith(r) ==
  /\ finalOutput' = r.out
  /\ err' = r.err
  /\ pc' = IF r.err # "" THEN "threw" ELSE "parameters returned"

\* transformParameters(arg)
TransformParameters ==
  /\ pc = "parameters"
  /\ TransformParametersWith(transformParameters(arg, externalFileKeys))
  /\ UNCHANGED <<input, rawSchema, operations, externalFileKeys, arg, resolved>>

NextParameters == TransformParameters
SpecParameters == InitParameters /\ [][NextParameters]_vars

\* What an entry of a list declares: its location, its name, whether it is
\* required, and its body (the component referred to, or its own type).
ComponentOf(p) ==
  Get(Get(Get(ParametersDocument, "components"), "parameters"), p.ref[Len(p.ref)])
Declared(p) ==
  IF "ref" \in DOMAIN p
  THEN [loc |-> ComponentOf(p)["in"], name |-> ComponentOf(p).name,
        required |-> Truthy(ComponentOf(p), "required"),
        body |-> <<Spell("components"), Spell("parameters"), <<p.ref[Len(p.ref)]>> >>]
  ELSE [loc |-> p["in"], name |-> p.name, required |-> Truthy(p, "required"),
        body |-> <<Get(PRIMITIVES, p.schema.type)>>]

\* The last entry of a list for each (location, name) pair of the list.
LastDeclared(list) ==
  {Declared(list[i]) : i \in {j \in 1..Len(list) :
     \A k \in (j + 1)..Len(list) :
        ~(Declared(list[k]).loc = Declared(list[j]).loc
            /\ Declared(list[k]).name = Declared(list[j]).name)}}

\* The fields of an emitted parameters text: for each name token, the
\* location record it stands in, the marker after it, and its body (the
\* character runs of a reference expression, or the literal of a type).
LocAt(text, i) ==
  text[CHOOSE j \in 1..i : text[j].t = "loc" /\ \A k \in (j + 1)..i : text[k].t # "loc"].v
BodyOf(text, i) ==
  Bind(IF text[i + 2] = Tok("lit", "?") THEN i + 4 ELSE i + 3, LAMBDA from :
    IF text[from].t = "ch"
    THEN Bind({j \in from..Len(text) : text[j] = Tok("lit", "\n")}, LAMBDA ends :
           ChRuns(SubSeq(text, from, (CHOOSE j \in ends : \A k \in ends : j <= k) - 1)))
    ELSE <<text[from].v>>)
FieldAt(text, i) ==
  [loc |-> LocAt(text, i), name |-> text[i].v,
   required |-> text[i + 2] # Tok("lit", "?"),
   body |-> BodyOf(text, i)]
EmittedParameters(text) ==
  Bind(Positions(text, "name"), LAMBDA at : [n \in 1..Len(at) |-> FieldAt(text, at[n])])
SetOf(seq) == {seq[i] : i \in 1..Len(seq)}
EmittedLocations(text) ==
  Bind(Positions(text, "loc"), LAMBDA at : [n \in 1..Len(at) |-> text[at[n]].v])

\* C9: for a list of inline parameters and of references to component
\* parameters, transformParameters raises no error and emits one record per
\* location of the list and in it one field per name at that location; the
\* field is that of the last entry of the list for the pair; a reference is
\* grouped under the location and name of the component it resolves to, its
\* body is the reference expression, and it has no marker iff the component
\* is required.
C9_LastWritePerLocationAndName ==
  pc \in {"parameters returned", "threw"} =>
    /\ err = ""
    /\ Len(EmittedLocations(finalOutput))
         = Cardinality({d.loc : d \in LastDeclared(arg)})
    /\ SetOf(EmittedLocations(finalOutput)) = {d.loc : d \in LastDeclared(arg)}
    /\ Len(EmittedParameters(finalOutput)) = Cardinality(LastDeclared(arg))
    /\ SetOf(EmittedParameters(finalOutput)) = LastDeclared(arg)
C9_Witness ==
  /\ pc = "parameters returned"
  /\ Len(arg) = 3
  /\ arg[1] = [in |-> "query", name |-> "x", schema |-> [type |-> "integer"]]
  /\ arg[2] = [ref |-> RefParam("C")]
  /\ arg[3] = [ref |-> RefParam("A")]
  /\ EmittedParameters(finalOutput)
       = << [loc |-> "query", name |-> "x", required |-> TRUE,
             body |-> <<Spell("components"), Spell("parameters"), <<"A">> >>],
            [loc |-> "path", name |-> "x", required |-> FALSE,
             body |-> <<Spell("components"), Spell("parameters"), <<"C">> >>] >>

----------------------------------------------------------------------------
(* createKeys on a property map and a required list, alone, as the         *)
(* properties of an object node, and as the entries of the raw schemas     *)
(* declaration (SpecKeys).                                                 *)

PropertyNames == <<"id", "name", "tag">>
PropertySchemas ==
  { [type |-> "integer"], [type |-> "string"],
    [type |-> "string", nullable |-> TRUE], [type |-> "integer", nullable |-> FALSE] }

\* The property maps of at most n entries, their names distinct.
RECURSIVE PropertyMaps(_)
PropertyMaps(n) ==
  IF n = 0 THEN {<<>>}
  ELSE PropertyMaps(n - 1)
         \cup {Append(m, E(PropertyNames[i], v)) :
                 m \in {x \in PropertyMaps(n - 1) : Len(x) = n - 1},
                 i \in {j \in 1..Len(PropertyNames) : j <= MaxProps + 1},
                 v \in PropertySchemas}
DistinctKeys(m) == \A i, j \in 1..Len(m) : m[i].k = m[j].k => i = j

\* The required argument: not given, or a list of names.
RequiredLists ==
  {Arg(FALSE, <<>>), Arg(TRUE, <<>>), Arg(TRUE, <<"id">>), Arg(TRUE, <<"name">>),
   Arg(TRUE, <<"name", "id">>), Arg(TRUE, <<"zip">>)}

InitKeys ==
  /\ pc = "keys"
  /\ arg \in {[obj |-> m, required |-> r] :
                m \in {x \in PropertyMaps(MaxProps) : DistinctKeys(x)},
                r \in RequiredLists}
  /\ input = <<>>
  /\ rawSchema \in BOOLEAN
  /\ operations = <<>> /\ externalFileKeys = <<>> /\ finalOutput = <<>>
  /\ err = "" /\ resolved = <<>>

\* createKeys(arg.obj, arg.required)
CreateKeys ==
  /\ pc = "keys"
  /\ finalOutput' = createKeys(arg.obj, arg.required, externalFileKeys).out
  /\ pc' = "keys returned"
  /\ UNCHANGED <<input, rawSchema, operations, externalFileKeys, err, arg, resolved>>

\* The object node whose properties and required list are arg's.
ObjectNode ==
  IF arg.required.given
  THEN [type |-> "object", properties |-> arg.obj, required |-> arg.required.names]
  ELSE [type |-> "object", properties |-> arg.obj]

\* transform(ObjectNode)
TransformObject ==
  /\ pc = "keys"
  /\ finalOutput' = transform(ObjectNode, externalFileKeys).out
  /\ pc' = "object returned"
  /\ UNCHANGED <<input, rawSchema, operations, externalFileKeys, err, arg, resolved>>

\* The schemas declaration over arg.obj as the schema map: every key is
\* passed as required.
EmitSchemas ==
  /\ pc = "keys"
  /\ finalOutput' = Section("export interface schemas ", arg.obj, externalFileKeys).out
  /\ pc' = "schemas returned"
  /\ UNCHANGED <<input, rawSchema, operations, externalFileKeys, err, arg, resolved>>

NextKeys == CreateKeys \/ TransformObject \/ EmitSchemas
SpecKeys == InitKeys /\ [][NextKeys]_vars

\* The fields of a text: for each name token, in order, the name, whether
\* the marker ? follows it, whether the type is wrapped as (<type>) | null,
\* and the type.
TypeStart(text, i) == IF text[i + 2] = Tok("lit", "?") THEN i + 4 ELSE i + 3
KeyAt(text, i) ==
  Bind(TypeStart(text, i), LAMBDA from :
    [name |-> text[i].v,
     optional |-> text[i + 2] = Tok("lit", "?"),
     nullable |-> /\ text[from] = Tok("open", "(")
                  /\ text[from + 2] = Tok("close", ")")
                  /\ text[from + 3] = Tok("lit", " | null"),
     type |-> IF text[from] = Tok("open", "(") THEN text[from + 1].v ELSE text[from].v,
     closed |-> text[IF text[from] = Tok("open", "(") THEN from + 4 ELSE from + 1]
                  = Tok("lit", ";\n")])
EmittedKeys(text) ==
  Bind(Positions(text, "name"), LAMBDA at : [n \in 1..Len(at) |-> KeyAt(text, at[n])])

\* The fields a property map and a required list call for.
TypeNames == <<E("integer", "number"), E("string", "string")>>
ExpectedKeys(m, required) ==
  [n \in 1..Len(m) |->
     [name |-> m[n].k,
      optional |-> ~required.given \/ ~Includes(required.names, m[n].k),
      nullable |-> "nullable" \in DOMAIN m[n].v /\ m[n].v.nullable,
      type |-> Get(TypeNames, m[n].v.type),
      closed |-> TRUE]]

\* C10: createKeys emits one field per entry of the map, in the map's
\* order; the field has the marker ? iff the required argument is absent or
\* lacks its name; its type is (<type>) | null iff its schema is marked
\* nullable.  The properties of an object node are emitted so with the
\* node's required list (Pet with required ["id"]: id required and number,
\* name optional and string), and every entry of the schemas declaration is
\* emitted as required.
C10_OneFieldPerProperty ==
  /\ pc \in {"keys returned", "object returned"} =>
       EmittedKeys(finalOutput) = ExpectedKeys(arg.obj, arg.required)
  /\ pc = "object returned" /\ arg.obj = Pet.properties /\ arg.required = Arg(TRUE, Pet.required) =>
       EmittedKeys(finalOutput)
         = << [name |-> "id", optional |-> FALSE, nullable |-> FALSE,
               type |-> "number", closed |-> TRUE],
              [name |-> "name", optional |-> TRUE, nullable |-> FALSE,
               type |-> "string", closed |-> TRUE] >>
  /\ pc = "schemas returned" =>
       EmittedKeys(finalOutput) = ExpectedKeys(arg.obj, Arg(TRUE, Keys(arg.obj)))
C10_Witness ==
  /\ pc = "object returned"
  /\ ObjectNode = Pet
  /\ Len(EmittedKeys(finalOutput)) = 2
  /\ ~EmittedKeys(finalOutput)[1].optional
  /\ EmittedKeys(finalOutput)[2].optional

====
